---- MODULE Spec2Model ----
(***************************************************************************)
(* CertiFlow batch job engine: one batch job of the job store (certificate *)
(* generation or email sending), its recipients, the background loop that  *)
(* processes it (server/src/services/job.service.ts) and the requests that *)
(* act on it (server/src/routes/job.routes.ts).  Every store update of the *)
(* engine is scoped by the job's id, so one job is modelled on its own.    *)
(* A loop step is one awaited call of the source; a request handler is one *)
(* step.                                                                   *)
(***************************************************************************)
EXTENDS Integers, Sequences, FiniteSets, TLC

VARIABLES
    job,        \* the BatchJob record of the store, or NoJob
    recipients, \* the job's Recipient records, in creation order
    loop,       \* the running processCertificateBatch / processEmailBatch call
    clock,      \* what new Date() returns
    response,   \* the last HTTP response sent by a job route
    mail,       \* a call of renderEmailTemplate: its arguments and result
    upload,     \* a CSV import: the file, and what parseCSV and validation give
    smtp,       \* the SmtpConfig records and the SMTP requests in flight
    settings,   \* the AppSettings singleton, or Null before it is created
    naming      \* the certificate files named by generateFilename for a batch

vars == <<job, recipients, loop, clock, response, mail, upload, smtp, settings, naming>>

----------------------------------------------------------------------------
(* Bounds of the model *)

\* largest number of CSV rows (recipients) of a job
MaxRecipients == 2

\* number of times the engine is invoked on one job (SpecRerun)
MaxRuns == 2

\* Number of recipients of the certificate batch of the scenario
ScenarioRecipients == 10

\* largest number of pieces (literal texts and tokens) of an email template
MaxPieces == 4

\* largest number of data rows of an imported CSV file (SpecCsv)
MaxCsvRows == 3

\* largest number of SmtpConfig records, and of SMTP requests in flight
\* (SpecSmtp)
MaxSmtpConfigs == 2
MaxInflight == 2

\* The pieces of a naming pattern
MaxNamePieces == 3

----------------------------------------------------------------------------
(* Nullable columns: null is the empty tuple, a value v is <<v>> *)

Null == <<>>

Some(v) == <<v>>

NoJob == [type |-> "none"]

\* The fields that the certificate template's field configuration draws.
fieldConfigs == <<"name", "event">>

Indices(s) == 1..Len(s)

----------------------------------------------------------------------------
(* Records *)

\* A Recipient as created by createMany: emailStatus pending, no error,
\* not sent.  hasEvent: the CSV row has a value in its "event" column.
\* queued is a history field, not a column: retry-failed has reset the
\* recipient ("queued for retry") and no send has been recorded for it since.
NewRecipient(hasEvent, path) ==
    [emailStatus     |-> "pending",
     sentAt          |-> Null,
     errorMessage    |-> Null,
     certificatePath |-> path,
     hasEvent        |-> hasEvent,
     queued          |-> FALSE]

\* GMAIL_LIMITS.SAFE_DELAY_MS
SAFE_DELAY_MS == 3000

\* The config of an email job: the ids of the request, and
\* delayMs || GMAIL_LIMITS.SAFE_DELAY_MS, where a request without delayMs
\* is delayMs = 0
EmailConfig(req) ==
    [emailTemplateId |-> req.emailTemplateId,
     smtpConfigId    |-> req.smtpConfigId,
     delayMs         |-> IF req.delayMs # 0 THEN req.delayMs ELSE SAFE_DELAY_MS]

\* The config of a certificate job
CertificateConfig(req) ==
    [templateId |-> req.templateId, outputPath |-> req.outputPath]

NewJob(type, total, config) ==
    [type           |-> type,
     status         |-> "pending",
     config         |-> config,
     totalCount     |-> total,
     processedCount |-> 0,
     successCount   |-> 0,
     failedCount    |-> 0,
     completedAt    |-> Null,
     outputPath     |-> Null]

\* No engine call is active
NoLoop ==
    [pc             |-> "none",
     i              |-> 0,
     recipients     |-> <<>>,
     totalCount     |-> 0,
     delayMs        |-> 0,
     processedCount |-> 0,
     successCount   |-> 0,
     failedCount    |-> 0,
     error          |-> Null,
     missing        |-> Null,
     calls          |-> <<>>,
     events         |-> <<>>]

\* An engine that publishes no progress event
emitNothing(l, status) == l

\* emitProgress(jobId, processedCount, job.totalCount, status): the event
\* published to the job's room, in the order of publication
emitProgress(l, status) ==
    [l EXCEPT !.events = Append(@, [processed |-> l.processedCount,
                                    total     |-> l.totalCount,
                                    status    |-> status])]

\* A progress update that leaves the job's failedCount as it was
UpdateProgressNoFailed(j, l) ==
    [j EXCEPT !.processedCount = l.processedCount,
              !.successCount   = l.successCount]

\* batchJob.update({ processedCount, successCount, failedCount }) with the
\* loop's local counters
UpdateProgress(j, l) ==
    [j EXCEPT !.processedCount = l.processedCount,
              !.successCount   = l.successCount,
              !.failedCount    = l.failedCount]

\* A catch block that throws the error on: the call of the loop ends
Rethrown(l) == [l EXCEPT !.pc = "done"]

\* The loop after its catch block: failedCount++, then processedCount++,
\* and the iteration goes on to the progress update
Caught(l) ==
    [l EXCEPT !.pc = "job",
              !.failedCount = @ + 1,
              !.processedCount = @ + 1,
              !.error = Null]

\* An engine that goes on without the record its job refers to
LoadAnyway(l, missing, loaded) == [loaded EXCEPT !.missing = missing]

\* The reads at the start of the engine: when a record the job's config
\* refers to is missing the engine throws, before any write; otherwise it
\* goes on with what it has loaded.
Load(l, missing, loaded) ==
    IF missing # Null
    THEN [l EXCEPT !.pc = "aborted", !.missing = missing]
    ELSE loaded

\* The engine has been called and its first store read is in flight
CalledLoop == [NoLoop EXCEPT !.pc = "load"]

\* No call of renderEmailTemplate
NoMail == [pc |-> "none", template |-> <<>>, data |-> <<>>, rendered |-> ""]

\* No CSV import
NoUpload == [pc |-> "none"]

\* No SmtpConfig record and no SMTP request in flight
NoSmtp == [configs |-> <<>>, inflight |-> <<>>]

NoNaming == [pc |-> "none"]

NoResponse == [op |-> "none", status |-> 0, retriedCount |-> 0, seq |-> 0]

Respond(op, status, n) ==
    [op |-> op, status |-> status, retriedCount |-> n, seq |-> 1 - response.seq]

----------------------------------------------------------------------------
Init ==
    /\ job = NoJob
    /\ recipients = <<>>
    /\ loop = NoLoop
    /\ clock = 1
    /\ response = NoResponse
    /\ mail = NoMail
    /\ upload = NoUpload
    /\ smtp = NoSmtp
    /\ settings = Null
    /\ naming = NoNaming

----------------------------------------------------------------------------
(* Job creation: POST /api/certificates/generate, POST /api/email/send-batch *)

\* A CSV file: whether its header has a name column, and its data rows.  A
\* row has an email cell (a valid address, an invalid one, or none: the cell
\* is empty or missing) and has or has not a value in its "event" column.
Emails == {"a@b.c", "bad", ""}

CsvRows == [email : Emails, hasEvent : BOOLEAN]

CsvFilesOf(maxRows) ==
    [hasName : BOOLEAN, rows : UNION {[1..n -> CsvRows] : n \in 0..maxRows}]

\* The CSV files of at most MaxRecipients rows
CsvFiles == CsvFilesOf(MaxRecipients)

\* on_record: a record without email, Email and EMAIL gives the parse error
\* "Missing email field" with the line of the record (the header is line 1).
RECURSIVE MissingEmailErrors(_, _)
MissingEmailErrors(rows, k) ==
    IF k > Len(rows)
    THEN <<>>
    ELSE (IF rows[k].email = "" THEN <<(<<"row", k + 1, "Missing email field">>)>>
          ELSE <<>>)
         \o MissingEmailErrors(rows, k + 1)

\* parseCSV: the headers are taken from the first record, so a file without
\* data rows has none.
parseCSV(file) ==
    [headers   |-> IF Len(file.rows) = 0 THEN <<>>
                   ELSE IF file.hasName THEN <<"name", "email", "event">>
                   ELSE <<"email", "event">>,
     rows      |-> file.rows,
     totalRows |-> Len(file.rows),
     errors    |-> MissingEmailErrors(file.rows, 1)]

\* /^[^\s@]+@[^\s@]+\.[^\s@]+$/ on the addresses of Emails
isValidEmail(email) == email = "a@b.c"

\* validateCSVForCertificates with requiredFields = ['name']
validateCSVForCertificates(parsedCSV) ==
    IF parsedCSV.totalRows = 0
    THEN [isValid |-> FALSE, errors |-> <<(<<"empty">>)>>, warnings |-> <<>>]
    ELSE LET hasField    == \E h \in Indices(parsedCSV.headers) :
                               parsedCSV.headers[h] = "name"
             emptyEmails == Cardinality({k \in Indices(parsedCSV.rows) :
                               parsedCSV.rows[k].email = ""})
             invalidEmails == Cardinality({k \in Indices(parsedCSV.rows) :
                               /\ parsedCSV.rows[k].email # ""
                               /\ ~isValidEmail(parsedCSV.rows[k].email)})
             errors   == (IF hasField THEN <<>> ELSE <<(<<"required", "name">>)>>)
                         \o parsedCSV.errors
             warnings == (IF emptyEmails > 0
                          THEN <<(<<"empty email", emptyEmails>>)>> ELSE <<>>)
                         \o (IF invalidEmails > 0
                             THEN <<(<<"invalid email", invalidEmails>>)>> ELSE <<>>)
         IN  [isValid |-> errors = <<>>, errors |-> errors, warnings |-> warnings]

\* The generation requests: one well-formed request per CSV file, and the
\* requests without CSV file, without template id, without output path and
\* with the id of a template that does not exist.
GenerateRequests(files) ==
    {[csv |-> Some(f), templateId |-> "tpl", outputPath |-> "out"] : f \in files}
    \cup {[csv |-> c, templateId |-> id, outputPath |-> o] :
             c \in {Null}, id \in {"tpl"}, o \in {"out"}}
    \cup {[csv |-> Some(f), templateId |-> id, outputPath |-> o] :
             f \in {[hasName |-> TRUE,
                      rows |-> <<[email |-> "a@b.c", hasEvent |-> TRUE]>>]},
             id \in {"", "tpl", "gone"}, o \in {"", "out"}}

\* certificateTemplate.findUnique
TemplateExists(id) == id = "tpl"

\* A route that does not ask for an output path
GenerateRejectionLax(req) ==
    IF req.csv = Null THEN 400
    ELSE IF req.templateId = "" THEN 400
    ELSE IF ~TemplateExists(req.templateId) THEN 404
    ELSE IF ~validateCSVForCertificates(parseCSV(req.csv[1])).isValid THEN 400
    ELSE 0

\* The status of the rejection of a generation request, 0 when it is not
\* rejected: the checks are made in the order of the route.
GenerateRejection(req) ==
    IF req.csv = Null THEN 400
    ELSE IF req.templateId = "" THEN 400
    ELSE IF req.outputPath = "" THEN 400
    ELSE IF ~TemplateExists(req.templateId) THEN 404
    ELSE IF ~validateCSVForCertificates(parseCSV(req.csv[1])).isValid THEN 400
    ELSE 0

\* A rejected request is answered without any write; otherwise the job and
\* one recipient per parsed row are created and the engine is called.
GenerateFrom(files) ==
    /\ job = NoJob
    /\ \E req \in GenerateRequests(files) :
          IF GenerateRejection(req) # 0
          THEN /\ response' = Respond("generate", GenerateRejection(req), 0)
               /\ UNCHANGED <<job, recipients, loop, clock, mail, upload, smtp, settings, naming>>
          ELSE LET rows == parseCSV(req.csv[1]).rows
               IN  /\ job' = NewJob("certificate", Len(rows), CertificateConfig(req))
                   /\ recipients' = [k \in 1..Len(rows) |->
                                       NewRecipient(rows[k].hasEvent, Null)]
                   /\ loop' = CalledLoop
                   /\ response' = Respond("generate", 201, 0)
                   /\ UNCHANGED <<clock, mail, upload, smtp, settings, naming>>

\* POST /api/certificates/generate with any of the CSV files
Generate == GenerateFrom(CsvFiles)

\* The recipients of a certificate job as send-batch finds them, for two
\* certificate jobs of each size: one whose recipients all have a
\* certificate, and one whose first recipient has none (and no "event").
CertificateJobRecipients ==
    UNION {{[k \in 1..n |-> [hasEvent |-> TRUE, certificatePath |-> Some("pdf")]],
            [k \in 1..n |-> IF k = 1
                            THEN [hasEvent |-> FALSE, certificatePath |-> Null]
                            ELSE [hasEvent |-> TRUE, certificatePath |-> Some("pdf")]]}
             : n \in 1..MaxRecipients}

\* The send-batch requests: each id is absent (""), the id of a record
\* that exists, or the id of none ("gone"); delayMs is the request's delay,
\* 0 when it gives none.
SendBatchRequests ==
    [certificateJobId : {"", "job", "gone"},
     emailTemplateId  : {"", "mail", "gone"},
     smtpConfigId     : {"", "smtp", "gone"},
     delayMs          : {0, 1000}]

\* batchJob.findUnique, emailTemplate.findUnique, smtpConfig.findUnique
RecordExists(id) == id \in {"job", "mail", "smtp"}

\* The status of the rejection of a send-batch request, 0 when it is not
\* rejected
SendBatchRejection(req) ==
    IF req.certificateJobId = "" \/ req.emailTemplateId = "" \/ req.smtpConfigId = ""
    THEN 400
    ELSE IF ~RecordExists(req.certificateJobId) THEN 404
    ELSE IF ~RecordExists(req.emailTemplateId) THEN 404
    ELSE IF ~RecordExists(req.smtpConfigId) THEN 404
    ELSE 0

\* POST /api/email/send-batch; src are the recipients of the certificate
\* job the request names.
SendBatch ==
    /\ job = NoJob
    /\ \E req \in SendBatchRequests, src \in CertificateJobRecipients :
          IF SendBatchRejection(req) # 0
          THEN /\ response' = Respond("send-batch", SendBatchRejection(req), 0)
               /\ UNCHANGED <<job, recipients, loop, clock, mail, upload, smtp, settings, naming>>
          ELSE /\ job' = NewJob("email", Len(src), EmailConfig(req))
               /\ recipients' = [k \in 1..Len(src) |->
                                   NewRecipient(src[k].hasEvent, src[k].certificatePath)]
               /\ loop' = CalledLoop
               /\ response' = Respond("send-batch", 201, 0)
               /\ UNCHANGED <<clock, mail, upload, smtp, settings, naming>>

----------------------------------------------------------------------------
(* processCertificateBatch *)

\* The placeholder record built for a recipient: name, full_name and email
\* always have an entry; "event" has a value only when the row has one.
RecipientData(r) ==
    [f \in {"name", "event"} |-> IF f = "event" /\ ~r.hasEvent THEN "" ELSE "text"]

\* A renderer that rejects a record without a value for a configured field
generateCertificateStrict(data, configs, pdfOk) ==
    IF ~pdfOk \/ \E c \in Indices(configs) : data[configs[c]] = ""
    THEN [ok |-> FALSE, drawn |-> <<>>]
    ELSE [ok |-> TRUE, drawn |-> configs]

\* generateCertificate: the fields drawn on the first page, or an error when
\* the PDF library fails (pdfOk = FALSE).  A field without a value is skipped.
generateCertificate(data, configs, pdfOk) ==
    IF ~pdfOk
    THEN [ok |-> FALSE, drawn |-> <<>>]
    ELSE [ok    |-> TRUE,
          drawn |-> SelectSeq(configs, LAMBDA f : data[f] # "")]

\* The path the certificate of recipient i is written to
filePath(i) == Some("pdf")

\* findUnique of the job with its recipients and of its template
CertLoad ==
    /\ job # NoJob /\ job.type = "certificate"
    /\ loop.pc = "load"
    /\ \E missing \in {Null, Some("template")} :
          loop' = Load(loop, missing,
                       [loop EXCEPT !.pc = "begin",
                                    !.recipients = recipients,
                                    !.totalCount = job.totalCount])
    /\ UNCHANGED <<job, recipients, clock, response, mail, upload, smtp, settings, naming>>

\* The loop's next step once recipient i has been dealt with: the render of
\* recipient i + 1, or the final update after the last one.
CertContinue(l) ==
    IF l.i < Len(l.recipients)
    THEN [l EXCEPT !.pc = "work", !.i = @ + 1,
                   !.calls = Append(@, <<"generate", l.i + 1>>)]
    ELSE [l EXCEPT !.pc = "finish", !.i = @ + 1]

\* status := processing; the counters start at 0 and the loop begins
CertBegin ==
    /\ job # NoJob /\ job.type = "certificate"
    /\ loop.pc = "begin"
    /\ job' = [job EXCEPT !.status = "processing"]
    /\ loop' = CertContinue(loop)
    /\ UNCHANGED <<recipients, clock, response, mail, upload, smtp, settings, naming>>

\* try { generateCertificate; writeFile }: the outcome of the awaited calls
\* for recipient i, caught by the catch block when one of them throws.
CertGenerateWith(outcomes) ==
    /\ job # NoJob /\ job.type = "certificate"
    /\ loop.pc = "work"
    /\ \E pdfOk \in outcomes, writeOk \in outcomes :
          LET r   == loop.recipients[loop.i]
              pdf == generateCertificate(RecipientData(r), fieldConfigs, pdfOk)
          IN  loop' = [loop EXCEPT
                         !.pc = "recipient",
                         !.error = IF ~pdf.ok THEN Some("render")
                                   ELSE IF ~writeOk THEN Some("write")
                                   ELSE Null]
    /\ UNCHANGED <<job, recipients, clock, response, mail, upload, smtp, settings, naming>>

\* The PDF library and the file system may fail for any recipient
CertGenerate == CertGenerateWith(BOOLEAN)

\* recipient.update: the certificate path on success, the error message in
\* the catch block; then the local counters are incremented.
CertUpdateRecipient ==
    /\ job # NoJob /\ job.type = "certificate"
    /\ loop.pc = "recipient"
    /\ IF loop.error = Null
       THEN /\ recipients' = [recipients EXCEPT
                                ![loop.i].certificatePath = filePath(loop.i)]
            /\ loop' = [loop EXCEPT !.pc = "job",
                                    !.successCount = @ + 1,
                                    !.processedCount = @ + 1]
       ELSE /\ recipients' = [recipients EXCEPT
                                ![loop.i].errorMessage = loop.error]
            /\ loop' = Caught(loop)
    /\ UNCHANGED <<job, clock, response, mail, upload, smtp, settings, naming>>

\* batchJob.update of the three counters, emitProgress, next recipient
CertUpdateJob ==
    /\ job # NoJob /\ job.type = "certificate"
    /\ loop.pc = "job"
    /\ job' = UpdateProgress(job, loop)
    /\ loop' = CertContinue(emitProgress(loop, "processing"))
    /\ UNCHANGED <<recipients, clock, response, mail, upload, smtp, settings, naming>>

\* A final status that any failure turns into failed
FinalStatusStrict(failedCount, totalCount) ==
    IF failedCount > 0 THEN "failed" ELSE "completed"

\* The status a finished loop gives the job
FinalStatus(failedCount, totalCount) ==
    IF failedCount = totalCount THEN "failed" ELSE "completed"

\* Mark job as completed, then the final progress event
CertFinish ==
    /\ job # NoJob /\ job.type = "certificate"
    /\ loop.pc = "finish"
    /\ job' = [job EXCEPT
                 !.status = FinalStatus(loop.failedCount, loop.totalCount),
                 !.completedAt = Some(clock),
                 !.outputPath = Some(job.config.outputPath)]
    /\ loop' = [emitProgress(loop, "completed") EXCEPT !.pc = "done"]
    /\ UNCHANGED <<recipients, clock, response, mail, upload, smtp, settings, naming>>

----------------------------------------------------------------------------
(* processEmailBatch *)

\* findUnique of the job with its recipients, of the email template and of
\* the SMTP config
EmailLoad ==
    /\ job # NoJob /\ job.type = "email"
    /\ loop.pc = "load"
    /\ \E missing \in {Null, Some("emailTemplate"), Some("smtpConfig")} :
          loop' = Load(loop, missing,
                       [loop EXCEPT !.pc = "begin",
                                    !.recipients = recipients,
                                    !.totalCount = job.totalCount,
                                    !.delayMs = job.config.delayMs])
    /\ UNCHANGED <<job, recipients, clock, response, mail, upload, smtp, settings, naming>>

\* "Skip if already sent": the recipients at l.i and after that the loaded
\* job holds as sent are counted as processed and successful, without any
\* awaited call.
\* A loop without the skip: every recipient of the snapshot is sent to
SkipSentNever(l) == l

RECURSIVE SkipSent(_)
SkipSent(l) ==
    IF l.i <= Len(l.recipients) /\ l.recipients[l.i].emailStatus = "sent"
    THEN SkipSent([l EXCEPT !.i = @ + 1,
                            !.processedCount = @ + 1,
                            !.successCount = @ + 1])
    ELSE l

\* A loop that does not await sendEmail: it calls the mail dispatcher for
\* the next recipient and for the one after it at once
EmailContinueUnawaited(l) ==
    LET m == SkipSent([l EXCEPT !.i = @ + 1])
    IN  IF m.i < Len(m.recipients)
        THEN [m EXCEPT !.pc = "work",
                       !.calls = @ \o <<(<<"send", m.i>>), (<<"send", m.i + 1>>)>>]
        ELSE IF m.i = Len(m.recipients)
        THEN [m EXCEPT !.pc = "work", !.calls = Append(@, <<"send", m.i>>)]
        ELSE [m EXCEPT !.pc = "finish"]

\* The loop's next awaited call once recipient l.i has been dealt with:
\* sendEmail for the next recipient that is not skipped, or the final
\* update of the job.
EmailContinue(l) ==
    LET m == SkipSent([l EXCEPT !.i = @ + 1])
    IN  IF m.i <= Len(m.recipients)
        THEN [m EXCEPT !.pc = "work", !.calls = Append(@, <<"send", m.i>>)]
        ELSE [m EXCEPT !.pc = "finish"]

\* status := processing; the counters start at 0 and the loop begins
EmailBegin ==
    /\ job # NoJob /\ job.type = "email"
    /\ loop.pc = "begin"
    /\ job' = [job EXCEPT !.status = "processing"]
    /\ loop' = EmailContinue(loop)
    /\ UNCHANGED <<recipients, clock, response, mail, upload, smtp, settings, naming>>

\* await sendEmail: it returns, or it throws and the catch block runs
EmailSend ==
    /\ job # NoJob /\ job.type = "email"
    /\ loop.pc = "work"
    /\ \E sent \in BOOLEAN :
          loop' = [loop EXCEPT !.pc = "recipient",
                              !.error = IF sent THEN Null ELSE Some("smtp")]
    /\ UNCHANGED <<job, recipients, clock, response, mail, upload, smtp, settings, naming>>

\* recipient.update: sent, sentAt and a cleared error on success; failed
\* and the error message in the catch block; then the local counters.
EmailUpdateRecipient ==
    /\ job # NoJob /\ job.type = "email"
    /\ loop.pc = "recipient"
    /\ IF loop.error = Null
       THEN /\ recipients' = [recipients EXCEPT
                                ![loop.i].emailStatus = "sent",
                                ![loop.i].sentAt = Some(clock),
                                ![loop.i].errorMessage = Null,
                                ![loop.i].queued = FALSE]
            /\ loop' = [loop EXCEPT !.pc = "job",
                                    !.successCount = @ + 1,
                                    !.processedCount = @ + 1]
       ELSE /\ recipients' = [recipients EXCEPT
                                ![loop.i].emailStatus = "failed",
                                ![loop.i].errorMessage = loop.error,
                                ![loop.i].queued = FALSE]
            /\ loop' = Caught(loop)
    /\ UNCHANGED <<job, clock, response, mail, upload, smtp, settings, naming>>

\* config.delayMs || GMAIL_LIMITS.SAFE_DELAY_MS
Delay(l) == IF l.delayMs # 0 THEN l.delayMs ELSE SAFE_DELAY_MS

\* A loop that delays after every recipient, the last one included
AfterProgressAlways(l) ==
    [l EXCEPT !.pc = "sleep", !.calls = Append(@, <<"sleep", l.i, Delay(l)>>)]

\* The loop after the job's progress update: the rate limiting delay when
\* processedCount < totalCount, the next recipient otherwise.  The sleep is
\* logged with the index of the recipient it follows.
AfterProgress(l) ==
    IF l.processedCount < l.totalCount
    THEN [l EXCEPT !.pc = "sleep", !.calls = Append(@, <<"sleep", l.i, Delay(l)>>)]
    ELSE EmailContinue(l)

\* batchJob.update of the three counters, emitProgress, rate limiting
EmailUpdateJob ==
    /\ job # NoJob /\ job.type = "email"
    /\ loop.pc = "job"
    /\ job' = UpdateProgress(job, loop)
    /\ loop' = AfterProgress(emitProgress(loop, "processing"))
    /\ UNCHANGED <<recipients, clock, response, mail, upload, smtp, settings, naming>>

\* await sleep(delayMs) returns
EmailSleep ==
    /\ job # NoJob /\ job.type = "email"
    /\ loop.pc = "sleep"
    /\ loop' = EmailContinue(loop)
    /\ UNCHANGED <<job, recipients, clock, response, mail, upload, smtp, settings, naming>>

\* Mark job as completed, then the final progress event
EmailFinish ==
    /\ job # NoJob /\ job.type = "email"
    /\ loop.pc = "finish"
    /\ job' = [job EXCEPT
                 !.status = FinalStatus(loop.failedCount, loop.totalCount),
                 !.completedAt = Some(clock)]
    /\ loop' = [emitProgress(loop, "completed") EXCEPT !.pc = "done"]
    /\ UNCHANGED <<recipients, clock, response, mail, upload, smtp, settings, naming>>

----------------------------------------------------------------------------
(* retryFailedRecipients and the routes of job.routes.ts *)

\* A where clause that matches on the email status alone
IsFailedByStatus(r) == r.emailStatus = "failed"

\* A where clause that matches every recipient of the job
IsAnyRecipient(r) == TRUE

\* where: emailStatus = failed OR errorMessage not null
IsFailed(r) == r.emailStatus = "failed" \/ r.errorMessage # Null

\* updateMany: the recipients matched are set to pending with no error
ResetFailed(rs) ==
    [k \in 1..Len(rs) |->
        IF IsFailed(rs[k])
        THEN [rs[k] EXCEPT !.emailStatus = "pending", !.errorMessage = Null,
                           !.queued = TRUE]
        ELSE rs[k]]

\* A reset that takes the recipients reset out of the job's total
ResetCountersAndTotal(j, n) ==
    [j EXCEPT !.status = "pending",
              !.failedCount = 0,
              !.processedCount = j.processedCount - n,
              !.totalCount = j.totalCount - n,
              !.completedAt = Null]

\* A reset that leaves completedAt as it was
ResetCountersKeepCompleted(j, n) ==
    [j EXCEPT !.status = "pending",
              !.failedCount = 0,
              !.processedCount = j.processedCount - n]

\* batchJob.update of retryFailedRecipients; n is job.recipients.length,
\* the number of recipients the first query matched
ResetCounters(j, n) ==
    [j EXCEPT !.status = "pending",
              !.failedCount = 0,
              !.processedCount = j.processedCount - n,
              !.completedAt = Null]

\* POST /:id/retry-failed; an unknown job makes retryFailedRecipients throw
\* and the route answer 500.
RetryFailed ==
    IF job = NoJob
    THEN /\ response' = Respond("retry-failed", 500, 0)
         /\ UNCHANGED <<job, recipients, loop, clock, mail, upload, smtp, settings, naming>>
    ELSE LET n == Cardinality({k \in Indices(recipients) : IsFailed(recipients[k])})
         IN  /\ recipients' = ResetFailed(recipients)
             /\ job' = ResetCounters(job, n)
             /\ response' = Respond("retry-failed", 200, n)
             /\ UNCHANGED <<loop, clock, mail, upload, smtp, settings, naming>>

\* POST /:id/cancel; the update of an unknown job throws (500)
Cancel ==
    IF job = NoJob
    THEN /\ response' = Respond("cancel", 500, 0)
         /\ UNCHANGED <<job, recipients, loop, clock, mail, upload, smtp, settings, naming>>
    ELSE /\ job' = [job EXCEPT !.status = "cancelled"]
         /\ response' = Respond("cancel", 200, 0)
         /\ UNCHANGED <<recipients, loop, clock, mail, upload, smtp, settings, naming>>

\* The caller of retry-failed invokes the email engine again on the job,
\* once the previous call has returned; time has passed since that call
\* began.
Rerun ==
    /\ job # NoJob /\ job.type = "email"
    /\ loop.pc = "done"
    /\ clock < MaxRuns
    /\ loop' = CalledLoop
    /\ clock' = clock + 1
    /\ UNCHANGED <<job, recipients, response, mail, upload, smtp, settings, naming>>

----------------------------------------------------------------------------
(* The server as deployed: the routes and the loops they start *)

CertLoop ==
    \/ CertLoad
    \/ CertBegin
    \/ CertGenerate
    \/ CertUpdateRecipient
    \/ CertUpdateJob
    \/ CertFinish

EmailLoop ==
    \/ EmailLoad
    \/ EmailBegin
    \/ EmailSend
    \/ EmailUpdateRecipient
    \/ EmailUpdateJob
    \/ EmailSleep
    \/ EmailFinish

Next ==
    \/ Generate
    \/ SendBatch
    \/ CertLoop
    \/ EmailLoop
    \/ RetryFailed
    \/ Cancel

Spec == Init /\ [][Next]_vars

\* The server with a caller that invokes the engine again after retry-failed
NextRerun == Next \/ Rerun

SpecRerun == Init /\ [][NextRerun]_vars

\* The server as deployed, with the scheduling of the event loop: a
\* background call of an engine that can take its next step takes it (every
\* awaited call returns). Requests are made or not, as the clients choose.
SpecLive ==
    /\ Init
    /\ [][Next]_vars
    /\ WF_vars(CertLoop)
    /\ WF_vars(EmailLoop)

\* status := processing, then mkdir(outputDir) throws (the directory cannot
\* be created): the call of the engine is rejected, and the route's catch
\* handler logs the error.
CertMkdirFails ==
    /\ job # NoJob /\ job.type = "certificate"
    /\ loop.pc = "begin"
    /\ job' = [job EXCEPT !.status = "processing"]
    /\ loop' = [loop EXCEPT !.pc = "rejected", !.error = Some("mkdir")]
    /\ UNCHANGED <<recipients, clock, response, mail, upload, smtp, settings, naming>>

\* The server with a file system that may refuse the output directory,
\* under the scheduling of the event loop
NextFaulty == Next \/ CertMkdirFails

SpecFaulty ==
    /\ Init
    /\ [][NextFaulty]_vars
    /\ WF_vars(CertLoop \/ CertMkdirFails)
    /\ WF_vars(EmailLoop)

\* The scenario of a certificate batch of ScenarioRecipients rows of which
\* exactly one has no value in its "event" column, a field the template's
\* field configuration references; the PDF library and the file system do
\* not fail, and no other request is made.
ScenarioCsvFiles ==
    {[hasName |-> TRUE,
      rows    |-> [k \in 1..ScenarioRecipients |->
                     [email |-> "a@b.c", hasEvent |-> k # m]]] :
        m \in 1..ScenarioRecipients}

GenerateScenario == GenerateFrom(ScenarioCsvFiles)

CertGenerateOk == CertGenerateWith({TRUE})

NextScenario ==
    \/ GenerateScenario
    \/ CertLoad
    \/ CertBegin
    \/ CertGenerateOk
    \/ CertUpdateRecipient
    \/ CertUpdateJob
    \/ CertFinish

SpecScenario == Init /\ [][NextScenario]_vars

----------------------------------------------------------------------------
(* renderEmailTemplate (email.service.ts) *)

\* A template is a sequence of pieces: literal text without braces, and
\* tokens {{id}} written with or without white space around the identifier.
Text(s) == [kind |-> "text", text |-> s, id |-> "", pad |-> ""]
Token(id, pad) == [kind |-> "token", text |-> "", id |-> id, pad |-> pad]

Pieces ==
    {Text("Hello "), Text(", welcome to "),
     Token("name", ""), Token("NAME", " "), Token("event", "")}

Templates == UNION {[1..n -> Pieces] : n \in 0..MaxPieces}

\* The data records, as the sequence Object.entries gives: entries
\* <<key, value>> in insertion order, each key at most once.
Names == {"Amir", ""}

DataRecords ==
    {<<>>, <<(<<"event", "Demo Day">>)>>}
    \cup {<<(<<"name", v>>)>> : v \in Names}
    \cup {<<(<<"name", v>>), (<<"event", "Demo Day">>)>> : v \in Names}
    \cup {<<(<<"event", "Demo Day">>), (<<"name", v>>)>> : v \in Names}

\* The text of a piece as it stands in the template
Source(piece) ==
    IF piece.kind = "text"
    THEN piece.text
    ELSE "{{" \o piece.pad \o piece.id \o piece.pad \o "}}"

\* Letter case is ignored by the 'i' flag of the regular expression
Lower(id) == IF id = "NAME" THEN "name" ELSE id

\* new RegExp(`\\{\\{\\s*${key}\\s*\\}\\}`, 'gi') matches the piece
Matches(piece, key) == piece.kind = "token" /\ Lower(piece.id) = Lower(key)

\* rendered.replace(regex, value || ''): every match becomes the value
Replace(pieces, entry) ==
    [p \in Indices(pieces) |->
        IF Matches(pieces[p], entry[1]) THEN Text(entry[2]) ELSE pieces[p]]

\* for (const [key, value] of Object.entries(data))
RECURSIVE ReplaceAll(_, _)
ReplaceAll(pieces, data) ==
    IF data = <<>>
    THEN pieces
    ELSE ReplaceAll(Replace(pieces, Head(data)), Tail(data))

\* The string the pieces make up
RECURSIVE Concat(_)
Concat(pieces) ==
    IF pieces = <<>> THEN "" ELSE Source(Head(pieces)) \o Concat(Tail(pieces))

renderEmailTemplate(template, data) == Concat(ReplaceAll(template, data))

\* renderEmailTemplate called on any template and any data record
InitRender ==
    /\ job = NoJob
    /\ recipients = <<>>
    /\ loop = NoLoop
    /\ clock = 1
    /\ response = NoResponse
    /\ mail \in {[pc |-> "call", template |-> t, data |-> d, rendered |-> ""] :
                    t \in Templates, d \in DataRecords}
    /\ upload = NoUpload
    /\ smtp = NoSmtp
    /\ settings = Null
    /\ naming = NoNaming

Render ==
    /\ mail.pc = "call"
    /\ mail' = [mail EXCEPT !.pc = "returned",
                            !.rendered = renderEmailTemplate(mail.template, mail.data)]
    /\ UNCHANGED <<job, recipients, loop, clock, response, upload, smtp, settings, naming>>

NextRender == Render

SpecRender == InitRender /\ [][NextRender]_vars

----------------------------------------------------------------------------
(* CSV import: parseCSV then validateCSVForCertificates (csv.service.ts) *)

InitCsv ==
    /\ job = NoJob
    /\ recipients = <<>>
    /\ loop = NoLoop
    /\ clock = 1
    /\ response = NoResponse
    /\ mail = NoMail
    /\ upload \in {[pc |-> "file", file |-> f] : f \in CsvFilesOf(MaxCsvRows)}
    /\ smtp = NoSmtp
    /\ settings = Null
    /\ naming = NoNaming

\* await parseCSV(csvFile.data)
ParseCsv ==
    /\ upload.pc = "file"
    /\ upload' = [pc |-> "parsed", file |-> upload.file,
                  parsedCSV |-> parseCSV(upload.file)]
    /\ UNCHANGED <<job, recipients, loop, clock, response, mail, smtp, settings, naming>>

\* validateCSVForCertificates(parsedCSV)
ValidateCsv ==
    /\ upload.pc = "parsed"
    /\ upload' = [pc |-> "validated", file |-> upload.file,
                  validation |-> validateCSVForCertificates(upload.parsedCSV)]
    /\ UNCHANGED <<job, recipients, loop, clock, response, mail, smtp, settings, naming>>

NextCsv == ParseCsv \/ ValidateCsv

SpecCsv == InitCsv /\ [][NextCsv]_vars

----------------------------------------------------------------------------
(* SMTP configurations: POST /api/settings/smtp, PUT /api/settings/smtp/:id *)

\* updateMany({ where: { isDefault: true, id: { not: id } },
\*              data: { isDefault: false } }); id = 0 excludes no record
UnsetDefaults(configs, id) ==
    [c \in Indices(configs) |->
        IF c # id THEN [configs[c] EXCEPT !.isDefault = FALSE] ELSE configs[c]]

\* A request has made its first store call, or has none to make, and its
\* create or update call is awaited
Await(s, configs, req) == [configs |-> configs, inflight |-> Append(s.inflight, req)]

\* POST /smtp: 400 when a required field is missing; with isDefault the
\* other defaults are unset first; the create call follows.  isDefault is
\* Null when the body has none.
SmtpCreate ==
    /\ Len(smtp.inflight) < MaxInflight
    /\ \E valid \in BOOLEAN, isDefault \in {Null, Some(FALSE), Some(TRUE)} :
          IF ~valid
          THEN /\ response' = Respond("smtp-create", 400, 0)
               /\ UNCHANGED smtp
          ELSE /\ smtp' = Await(smtp,
                                IF isDefault = Some(TRUE)
                                THEN UnsetDefaults(smtp.configs, 0)
                                ELSE smtp.configs,
                                [op |-> "create", id |-> 0, isDefault |-> isDefault])
               /\ UNCHANGED response
    /\ UNCHANGED <<job, recipients, loop, clock, mail, upload, settings, naming>>

\* PUT /smtp/:id: with isDefault the defaults of the other records are
\* unset first; the update call follows.
SmtpUpdate ==
    /\ Len(smtp.inflight) < MaxInflight
    /\ \E id \in 1..MaxSmtpConfigs, isDefault \in {Null, Some(FALSE), Some(TRUE)} :
          smtp' = Await(smtp,
                        IF isDefault = Some(TRUE)
                        THEN UnsetDefaults(smtp.configs, id)
                        ELSE smtp.configs,
                        [op |-> "update", id |-> id, isDefault |-> isDefault])
    /\ UNCHANGED <<job, recipients, loop, clock, response, mail, upload, settings, naming>>

\* The sequence s without its element at position p
Without(s, p) == [q \in 1..(Len(s) - 1) |-> IF q < p THEN s[q] ELSE s[q + 1]]

\* The awaited smtpConfig.create or smtpConfig.update of a request is made
\* and the request is answered; the update of a record that does not exist
\* throws (500).
SmtpWrite ==
    /\ \E p \in Indices(smtp.inflight) :
          LET req == smtp.inflight[p]
          IN  IF req.op = "create"
              THEN /\ Len(smtp.configs) < MaxSmtpConfigs
                   /\ smtp' = [configs  |-> Append(smtp.configs,
                                    [isDefault |-> req.isDefault = Some(TRUE)]),
                               inflight |-> Without(smtp.inflight, p)]
                   /\ response' = Respond("smtp-create", 201, 0)
              ELSE IF req.id \in Indices(smtp.configs)
              THEN /\ smtp' = [configs  |-> IF req.isDefault = Null
                                            THEN smtp.configs
                                            ELSE [smtp.configs EXCEPT
                                                    ![req.id].isDefault = req.isDefault[1]],
                               inflight |-> Without(smtp.inflight, p)]
                   /\ response' = Respond("smtp-update", 200, 0)
              ELSE /\ smtp' = [smtp EXCEPT !.inflight = Without(smtp.inflight, p)]
                   /\ response' = Respond("smtp-update", 500, 0)
    /\ UNCHANGED <<job, recipients, loop, clock, mail, upload, settings, naming>>

NextSmtp == SmtpCreate \/ SmtpUpdate \/ SmtpWrite

SpecSmtp == Init /\ [][NextSmtp]_vars

----------------------------------------------------------------------------
(* The daily email cap: PUT /api/settings, GET /api/email/stats *)

\* GMAIL_LIMITS.DAILY_LIMIT
DAILY_LIMIT == 500

\* appSettings.upsert: a request without maxEmailsPerDay (0, falsy) creates
\* the record with the default cap and leaves an existing record's cap.
Upsert(s, maxEmailsPerDay) ==
    IF s = Null
    THEN Some([maxEmailsPerDay |-> IF maxEmailsPerDay # 0
                                   THEN maxEmailsPerDay ELSE DAILY_LIMIT])
    ELSE IF maxEmailsPerDay # 0
         THEN Some([maxEmailsPerDay |-> maxEmailsPerDay])
         ELSE s

\* PUT /api/settings
UpdateSettings ==
    /\ \E maxEmailsPerDay \in {0, 1, DAILY_LIMIT} :
          settings' = Upsert(settings, maxEmailsPerDay)
    /\ UNCHANGED <<job, recipients, loop, clock, response, mail, upload, smtp, naming>>

\* dailyLimit of GET /api/email/stats:
\* settings?.maxEmailsPerDay || GMAIL_LIMITS.DAILY_LIMIT
dailyLimit(s) ==
    IF s # Null /\ s[1].maxEmailsPerDay # 0
    THEN s[1].maxEmailsPerDay
    ELSE DAILY_LIMIT

\* emailsSentToday of GET /api/email/stats: the recipients with emailStatus
\* sent and sentAt >= today, the day beginning at time today
emailsSentToday(rs, today) ==
    Cardinality({k \in Indices(rs) :
                    /\ rs[k].emailStatus = "sent"
                    /\ rs[k].sentAt # Null
                    /\ rs[k].sentAt[1] >= today})

\* The server with the settings route and email jobs, in one day
NextQuota == UpdateSettings \/ SendBatch \/ EmailLoop

SpecQuota == Init /\ [][NextQuota]_vars

----------------------------------------------------------------------------
(* generateFilename (job.service.ts) and sanitizeFilename (csv.service.ts) *)

\* A string is the sequence of its characters.
LowerCase ==
    <<"a", "b", "c", "d", "e", "f", "g", "h", "i", "j", "k", "l", "m",
      "n", "o", "p", "q", "r", "s", "t", "u", "v", "w", "x", "y", "z">>

UpperCase ==
    <<"A", "B", "C", "D", "E", "F", "G", "H", "I", "J", "K", "L", "M",
      "N", "O", "P", "Q", "R", "S", "T", "U", "V", "W", "X", "Y", "Z">>

Digits == <<"0", "1", "2", "3", "4", "5", "6", "7", "8", "9">>

\* toLowerCase, and the 'i' flag of a regular expression, on one character
LowerChar(c) ==
    IF \E n \in Indices(UpperCase) : UpperCase[n] = c
    THEN LowerCase[CHOOSE n \in Indices(UpperCase) : UpperCase[n] = c]
    ELSE c

\* \s
IsSpace(c) == c \in {" ", "\t"}

\* [a-zA-Z0-9\s-_]
IsSafe(c) ==
    \/ \E n \in Indices(LowerCase) : LowerCase[n] = c \/ UpperCase[n] = c
    \/ \E n \in Indices(Digits) : Digits[n] = c
    \/ IsSpace(c)
    \/ c \in {"-", "_"}

\* .replace(/\s+/g, '_'): the first character of each run of white space
\* becomes an underscore and the rest of the run goes
Underscored(s) ==
    LET kept == SelectSeq([p \in Indices(s) |-> p],
                          LAMBDA p : ~IsSpace(s[p]) \/ p = 1 \/ ~IsSpace(s[p - 1]))
    IN  [k \in Indices(kept) |->
            IF IsSpace(s[kept[k]]) THEN "_" ELSE s[kept[k]]]

\* .substring(0, n)
Substring(s, n) == SubSeq(s, 1, IF Len(s) < n THEN Len(s) ELSE n)

\* A sanitizer that removes the special characters and keeps the white space
sanitizeFilenameSpaced(name) ==
    Substring(SelectSeq(name, LAMBDA c : IsSafe(c)), 100)

\* sanitizeFilename: special characters removed, white space runs replaced
\* by one underscore, the first 100 characters kept
sanitizeFilename(name) ==
    Substring(Underscored(SelectSeq(name, LAMBDA c : IsSafe(c))), 100)

\* String(n) of a natural number
RECURSIVE Decimal(_)
Decimal(n) ==
    IF n < 10
    THEN <<Digits[n + 1]>>
    ELSE Decimal(n \div 10) \o <<Digits[(n % 10) + 1]>>

\* s.padStart(len, fill)
padStart(s, len, fill) ==
    IF Len(s) >= len THEN s ELSE [k \in 1..(len - Len(s)) |-> fill] \o s

\* The number of white space characters of s from position p on
RECURSIVE SpaceRun(_, _)
SpaceRun(s, p) ==
    IF p <= Len(s) /\ IsSpace(s[p]) THEN 1 + SpaceRun(s, p + 1) ELSE 0

\* The length of the match of /\{\{key\}\}/i (spaced = FALSE) or of
\* /\{\{\s*key\s*\}\}/i (spaced = TRUE) at position p of s, 0 without a
\* match.  The key is an identifier: it has no white space and no character
\* that is special in a regular expression.
TokenLength(s, p, key, spaced) ==
    LET a == p + 1 + (IF spaced THEN SpaceRun(s, p + 2) ELSE 0)
        b == a + Len(key)
        c == b + (IF spaced THEN SpaceRun(s, b + 1) ELSE 0)
    IN  IF /\ Len(s) >= p + 1
           /\ s[p] = "{" /\ s[p + 1] = "{"
           /\ Len(s) >= c + 2
           /\ \A k \in Indices(key) : LowerChar(s[a + k]) = LowerChar(key[k])
           /\ s[c + 1] = "}" /\ s[c + 2] = "}"
        THEN c + 2 - (p - 1)
        ELSE 0

\* s.replace(regex, value) with the 'g' flag: every match, from the left
\* (matches do not overlap: a match has no brace inside its braces).
\* The values used hold no "$", so the replacement is the value itself.
RECURSIVE ReplaceTokens(_, _, _, _)
ReplaceTokens(s, key, spaced, value) ==
    LET starts == {p \in Indices(s) : TokenLength(s, p, key, spaced) > 0}
    IN  IF starts = {}
        THEN s
        ELSE LET p == CHOOSE q \in starts : \A r \in starts : q <= r
                 n == TokenLength(s, p, key, spaced)
             IN  SubSeq(s, 1, p - 1) \o value
                   \o ReplaceTokens(SubSeq(s, p + n, Len(s)), key, spaced, value)

\* for (const [key, value] of Object.entries(data)) filename = filename.replace
RECURSIVE ReplaceFields(_, _)
ReplaceFields(s, data) ==
    IF data = <<>>
    THEN s
    ELSE ReplaceFields(ReplaceTokens(s, Head(data)[1], TRUE,
                                     sanitizeFilename(Head(data)[2])),
                       Tail(data))

\* filename.toLowerCase().endsWith('.pdf')
EndsWithPdf(s) ==
    /\ Len(s) >= 4
    /\ [k \in 1..4 |-> LowerChar(s[Len(s) - 4 + k])] = <<".", "p", "d", "f">>

generateFilename(pattern, data, index) ==
    LET sn     == padStart(Decimal(index + 1), 3, "0")
        filled == ReplaceFields(ReplaceTokens(pattern, <<"s", "n">>, FALSE, sn),
                                data)
    IN  IF EndsWithPdf(filled) THEN filled ELSE filled \o <<".", "p", "d", "f">>

\* The pieces naming patterns are made of: the sequence number token, a
\* token of the field "name" (plain, and spaced in another letter case),
\* text, and tokens that nothing replaces
NamePieces ==
    {[kind |-> "sn",    src |-> <<"{", "{", "s", "n", "}", "}">>],
     [kind |-> "field", src |-> <<"{", "{", "n", "a", "m", "e", "}", "}">>],
     [kind |-> "field", src |-> <<"{", "{", " ", "N", "a", "m", "e", "\t", "}", "}">>],
     [kind |-> "text",  src |-> <<"_">>],
     [kind |-> "text",  src |-> <<".", "p", "d", "f">>],
     [kind |-> "text",  src |-> <<".", "P", "D", "F">>],
     [kind |-> "text",  src |-> <<"{", "{", " ", "s", "n", " ", "}", "}">>]}

NamePatterns == UNION {[1..n -> NamePieces] : n \in 0..MaxNamePieces}

\* The pattern {{sn}}_{{name}}
SnAndName ==
    <<[kind |-> "sn",    src |-> <<"{", "{", "s", "n", "}", "}">>],
      [kind |-> "text",  src |-> <<"_">>],
      [kind |-> "field", src |-> <<"{", "{", "n", "a", "m", "e", "}", "}">>]>>

\* namingPattern: namingPattern || '{{sn}}_{{name}}' of POST /generate
ConfiguredPattern(pieces) == IF pieces = <<>> THEN SnAndName ELSE pieces

\* The text the pieces of a pattern make up
RECURSIVE namingPattern(_)
namingPattern(pieces) ==
    IF pieces = <<>>
    THEN <<>>
    ELSE Head(pieces).src \o namingPattern(Tail(pieces))

\* The full names of recipients: a plain one, one with special characters
\* and runs of white space, one of special and safe characters only, and
\* one of more than 100 characters
JaneDoe == <<"J", "a", "n", "e", " ", "D", "o", "e">>

FullNames ==
    {JaneDoe,
     <<"J", "a", "n", "e", ".", " ", "\t", "D", "'", "o", "e", "!">>,
     <<"$", "1", "-", "_", "&">>,
     [k \in 1..101 |-> "a"]}

\* const data = { name, full_name, email, ...extraFields } of a recipient
\* without extra fields, as Object.entries gives it
NamingData(fullName) ==
    <<(<<(<<"n", "a", "m", "e">>), fullName>>),
      (<<(<<"f", "u", "l", "l", "_", "n", "a", "m", "e">>), fullName>>),
      (<<(<<"e", "m", "a", "i", "l">>), (<<"j", "@", "d", ".", "e">>)>>)>>

\* The positions in job.recipients at which the recipients named begin
FirstIndices == {0, 9, 999}

\* The recipients of a batch from position first on, to be named in order
NamingOf(pieces, names, first) ==
    [pc |-> "naming", pieces |-> pieces, names |-> names, first |-> first,
     paths |-> <<>>]

\* One call of generateFilename, on any pattern, full name and index
InitFilename ==
    /\ job = NoJob
    /\ recipients = <<>>
    /\ loop = NoLoop
    /\ clock = 1
    /\ response = NoResponse
    /\ mail = NoMail
    /\ upload = NoUpload
    /\ smtp = NoSmtp
    /\ settings = Null
    /\ naming \in {NamingOf(pieces, <<name>>, first) :
                      pieces \in NamePatterns, name \in FullNames,
                      first \in FirstIndices}

\* The certificates of a batch of recipients that all succeed
InitNaming ==
    /\ job = NoJob
    /\ recipients = <<>>
    /\ loop = NoLoop
    /\ clock = 1
    /\ response = NoResponse
    /\ mail = NoMail
    /\ upload = NoUpload
    /\ smtp = NoSmtp
    /\ settings = Null
    /\ naming \in {NamingOf(ConfiguredPattern(pieces), names, 0) :
                      pieces \in NamePatterns,
                      names \in UNION {[1..n -> FullNames] : n \in 1..MaxRecipients}}

\* const filename = generateFilename(config.namingPattern, data, i);
\* const filePath = join(outputDir, filename), for the next recipient.  The
\* output directory is the same for the whole job.
NameCertificate ==
    /\ naming.pc = "naming"
    /\ LET i     == Len(naming.paths)
           path  == generateFilename(namingPattern(naming.pieces),
                                     NamingData(naming.names[i + 1]),
                                     naming.first + i)
       IN  naming' = [naming EXCEPT
                        !.paths = Append(@, path),
                        !.pc = IF i + 1 = Len(naming.names)
                               THEN "named" ELSE "naming"]
    /\ UNCHANGED <<job, recipients, loop, clock, response, mail, upload, smtp, settings>>

NextNaming == NameCertificate

SpecFilename == InitFilename /\ [][NextNaming]_vars

SpecNaming == InitNaming /\ [][NextNaming]_vars

----------------------------------------------------------------------------
(* Properties *)

\* The loop is between two recipient iterations (or before the first, or
\* after the last): no awaited call of an iteration is in flight.
BetweenIterations == loop.pc \notin {"work", "recipient", "job"}

\* C1: in every state observable between two recipient iterations of the
\* engine, and after retry-failed, the persisted counters of the job satisfy
\* processedCount = successCount + failedCount.
C1_CountersAddUp ==
    (job # NoJob /\ BetweenIterations)
        => job.processedCount = job.successCount + job.failedCount

\* A step of the loop that begins the work on a recipient after loop.i
StartsRecipient == loop'.pc = "work" /\ loop'.i > loop.i

\* The loop is inside its iteration over the recipients
InRecipientLoop == loop.pc \in {"work", "recipient", "job", "sleep"}

\* C2: once a cancel request has set the status of a job to cancelled
\* while its loop is running, the loop begins no further recipient, and its
\* steps leave the recipients it has already processed unchanged.
C2_CancelStopsLoop ==
    [][(job # NoJob /\ job.status = "cancelled" /\ InRecipientLoop /\ loop' # loop)
         => /\ ~StartsRecipient
            /\ \A k \in 1..(loop.i - 1) : recipients'[k] = recipients[k]]_vars

\* The step calls the mail dispatcher for recipient k
SendIssued(k) ==
    /\ Len(loop'.calls) > Len(loop.calls)
    /\ loop'.calls[Len(loop'.calls)] = <<"send", k>>

\* C3: running the email loop again on a job in which some recipients
\* already have emailStatus = sent never calls the mail dispatcher for
\* those recipients and leaves their emailStatus, sentAt and errorMessage
\* unchanged.
C3_SentNotResent ==
    [][\A k \in Indices(recipients) :
          (job # NoJob /\ job.type = "email" /\ recipients[k].emailStatus = "sent")
            => /\ ~SendIssued(k)
               /\ recipients'[k].emailStatus = recipients[k].emailStatus
               /\ recipients'[k].sentAt = recipients[k].sentAt
               /\ recipients'[k].errorMessage = recipients[k].errorMessage]_vars

\* A second run has ended: it sent to a recipient the first run failed on
\* and left alone the recipient the first run had sent to.
C3_Witness ==
    /\ job # NoJob /\ job.type = "email"
    /\ clock = 2 /\ loop.pc = "done"
    /\ \E k1, k2 \in Indices(recipients) :
          /\ recipients[k1].emailStatus = "sent" /\ recipients[k1].sentAt = Some(1)
          /\ recipients[k2].emailStatus = "sent" /\ recipients[k2].sentAt = Some(2)
          /\ \A c \in Indices(loop.calls) : loop.calls[c] # <<"send", k1>>

\* The recipients of the loop's snapshot that retry-failed had reset
Queued(l) == {k \in Indices(l.recipients) : l.recipients[k].queued}

\* The recipients the run has called the mail dispatcher for
Attempted(l) ==
    {k \in Indices(l.recipients) :
        \E c \in Indices(l.calls) : l.calls[c] = <<"send", k>>}

\* A later run of the email loop ends; retry-failed had reset every failed
\* recipient before the run read the job, and no request changed the job
\* while the run was going on.
RetriedRunEnds ==
    /\ job # NoJob /\ job.type = "email"
    /\ clock > 1
    /\ loop.pc = "finish" /\ loop'.pc = "done"
    /\ job.status = "processing"
    /\ \A k \in Indices(loop.recipients) : ~IsFailed(loop.recipients[k])

\* C4: after retry-failed has reset the N failed recipients of an email
\* job to pending, a later run of the email loop attempts a send for
\* exactly those N recipients and no others, and the failedCount the job
\* has when that run ends is the number of those N whose send failed again.
C4_RetryRunsExactlyReset ==
    [][RetriedRunEnds
         => /\ Attempted(loop) = Queued(loop)
            /\ job'.failedCount =
                 Cardinality({k \in Queued(loop) :
                                 recipients'[k].emailStatus = "failed"})]_vars

\* A second run has ended after retry-failed: it attempted only the
\* recipient that had been reset, whose send failed again, and the
\* recipient sent in the first run was not attempted.
C4_Witness ==
    /\ job # NoJob /\ job.type = "email"
    /\ clock = 2 /\ loop.pc = "done"
    /\ job.status = "completed" /\ job.failedCount = 1
    /\ \E k1, k2 \in Indices(recipients) :
          /\ Queued(loop) = {k2} /\ Attempted(loop) = {k2}
          /\ recipients[k2].emailStatus = "failed"
          /\ recipients[k1].emailStatus = "sent" /\ recipients[k1].sentAt = Some(1)

\* A retry-failed request on an existing job is answered
RetryStep ==
    /\ job # NoJob
    /\ response' # response
    /\ response'.op = "retry-failed"

\* The recipients whose emailStatus is failed or whose errorMessage is set
FailedOrError ==
    {k \in Indices(recipients) :
        recipients[k].emailStatus = "failed" \/ recipients[k].errorMessage # Null}

FinishStep == job # NoJob /\ loop.pc = "finish" /\ loop'.pc = "done"

\* Recipient k has succeeded: its certificate is written (certificate job)
\* or its email is sent (email job)
Succeeded(k) ==
    IF job.type = "certificate"
    THEN recipients[k].certificatePath # Null
    ELSE recipients[k].emailStatus = "sent"

\* C6: when a batch loop (certificate or email) finishes iterating, the
\* status of the job becomes completed if at least one recipient succeeded
\* (failedCount < totalCount) and failed otherwise, and completedAt is set
\* in the same update.
C6_FinalStatus ==
    [][FinishStep
         => /\ job'.status \in {"completed", "failed"}
            /\ job'.status = "completed" <=> loop.failedCount < loop.totalCount
            /\ job'.status = "completed" <=> \E k \in Indices(recipients) : Succeeded(k)
            /\ job'.completedAt = Some(clock)]_vars

\* An email loop has finished with one recipient sent and one failed: the
\* job is completed and has its completion time.
C6_Witness ==
    /\ job # NoJob /\ job.type = "email"
    /\ loop.pc = "done"
    /\ job.status = "completed" /\ job.completedAt = Some(clock)
    /\ job.successCount = 1 /\ job.failedCount = 1
    /\ \E k1, k2 \in Indices(recipients) :
          /\ recipients[k1].emailStatus = "sent"
          /\ recipients[k2].emailStatus = "failed"

\* The recipients of the snapshot the loop has begun to process
Handled(l) ==
    {k \in Indices(l.recipients) :
        \E c \in Indices(l.calls) :
            l.calls[c] = <<"generate", k>> \/ l.calls[c] = <<"send", k>>}

ScenarioEnded ==
    /\ job # NoJob /\ job.type = "certificate"
    /\ Len(recipients) = ScenarioRecipients
    /\ loop.pc = "done"

\* The recipients whose row has no value for the field "event"
Lacking == {k \in Indices(recipients) : ~recipients[k].hasEvent}

\* C8 as stated: in a certificate batch, a recipient whose row has no value
\* for a field the template's field configuration references is marked
\* failed with an error message while all others succeed; with only
\* recipient #5 lacking the value the job ends completed with
\* successCount = total - 1 and failedCount = 1.
C8_MissingValueFails ==
    (ScenarioEnded /\ Lacking = {5})
        => /\ recipients[5].errorMessage # Null
           /\ job.status = "completed"
           /\ job.successCount = job.totalCount - 1
           /\ job.failedCount = 1

\* C8, amended: a recipient whose row has no value for a configured field
\* gets its certificate with that field left out and is not marked failed;
\* when nothing else fails, the job ends completed with successCount =
\* totalCount and failedCount = 0.
C8_MissingValueSkipped ==
    ScenarioEnded
        => /\ \A k \in Lacking :
                 /\ recipients[k].errorMessage = Null
                 /\ recipients[k].certificatePath # Null
                 /\ generateCertificate(RecipientData(recipients[k]), fieldConfigs, TRUE)
                      = [ok |-> TRUE, drawn |-> <<"name">>]
           /\ \A k \in Indices(recipients) : recipients[k].certificatePath # Null
           /\ job.status = "completed"
           /\ job.successCount = job.totalCount
           /\ job.failedCount = 0

\* The batch of 10 recipients in which only recipient #5 lacks the value
\* has ended, with a certificate for recipient #5.
C8_Witness ==
    /\ ScenarioEnded
    /\ Lacking = {5}
    /\ job.totalCount = 10 /\ job.successCount = 10
    /\ recipients[5].certificatePath # Null

\* Call c of the run is a sleep / a send attempt
IsSleep(c) == loop.calls[c][1] = "sleep"
IsSend(c) == loop.calls[c][1] = "send"

\* C9: in every run of the email loop the engine sleeps for the job's
\* configured delay only between recipients: never before the first
\* recipient is handled, never after the last recipient is handled, and a
\* full delay separates any two consecutive send attempts of the run.
C9_SleepOnlyBetween ==
    (job # NoJob /\ job.type = "email")
        => /\ \A c \in Indices(loop.calls) :
                 IsSleep(c)
                    => /\ c > 1 /\ IsSend(c - 1)
                       /\ loop.calls[c - 1][2] = loop.calls[c][2]
                       /\ loop.calls[c][2] < Len(loop.recipients)
                       /\ loop.calls[c][3] = job.config.delayMs
                       /\ loop.calls[c][3] > 0
           /\ \A c \in Indices(loop.calls) :
                 (IsSend(c) /\ c > 1)
                    => /\ IsSleep(c - 1)
                       /\ loop.calls[c - 1][2] < loop.calls[c][2]
           /\ (loop.pc = "sleep") => IsSleep(Len(loop.calls))

\* A run over two recipients has ended with the delay the request asked
\* for between its two send attempts, and none after the second.
C9_Witness ==
    /\ job # NoJob /\ job.type = "email"
    /\ loop.pc = "done"
    /\ loop.calls = <<(<<"send", 1>>), (<<"sleep", 1, 1000>>), (<<"send", 2>>)>>

\* The identifier id is a key of the record / the value the record has for it
HasKey(data, id) == \E e \in Indices(data) : Lower(data[e][1]) = Lower(id)
ValueOf(data, id) ==
    data[CHOOSE e \in Indices(data) : Lower(data[e][1]) = Lower(id)][2]

\* The text with every token replaced by the record's value for its
\* identifier, and by the empty string when the identifier is not a key
RECURSIVE Substituted(_, _)
Substituted(pieces, data) ==
    IF pieces = <<>>
    THEN ""
    ELSE LET piece == Head(pieces)
         IN  (IF piece.kind = "text" THEN piece.text
              ELSE IF HasKey(data, piece.id) THEN ValueOf(data, piece.id)
              ELSE "")
             \o Substituted(Tail(pieces), data)

\* C10: renderEmailTemplate replaces every {{identifier}} token (optional
\* white space, case-insensitive) by the record's value for that identifier,
\* and a token whose identifier is not a key of the record by the empty
\* string, never leaving the literal token.
C10_UnmatchedTokenEmpty ==
    (mail.pc = "returned")
        => mail.rendered = Substituted(mail.template, mail.data)

\* The rows of the imported file whose email is empty or missing
WithoutEmail == {k \in Indices(upload.file.rows) : upload.file.rows[k].email = ""}

\* C11: parsing then validating a CSV against the required field name only:
\* rows with an empty or missing email give a warning and never an error, so
\* a CSV with a name column and at least one data row is valid and has no
\* error, and when some rows lack an email it has exactly one warning about
\* empty emails.
C11_MissingEmailOnlyWarns ==
    (upload.pc = "validated" /\ upload.file.hasName /\ Len(upload.file.rows) > 0)
        => /\ upload.validation.isValid
           /\ upload.validation.errors = <<>>
           /\ (WithoutEmail # {})
                 => Cardinality({w \in Indices(upload.validation.warnings) :
                        upload.validation.warnings[w][1] = "empty email"}) = 1

\* A creation request is accepted: the job is created
JobCreated == job = NoJob /\ job' # NoJob

\* C12: for every accepted generation request the created job's totalCount
\* is the number of parsed CSV rows and exactly that many recipients exist
\* for the job; for every accepted send-batch request the email job's
\* totalCount is the number of recipients copied from the certificate job.
\* totalCount is never changed afterwards by the engine, retry-failed or
\* cancel.
C12_TotalCountFixed ==
    [][/\ JobCreated
          => /\ job'.totalCount = Len(recipients')
             /\ job'.type = "certificate"
                  => \E req \in GenerateRequests(CsvFiles) :
                        /\ GenerateRejection(req) = 0
                        /\ job'.totalCount = parseCSV(req.csv[1]).totalRows
             /\ job'.type = "email"
                  => \E src \in CertificateJobRecipients :
                        job'.totalCount = Len(src)
       /\ (job # NoJob)
          => /\ job' # NoJob
             /\ job'.totalCount = job.totalCount
             /\ Len(recipients') = Len(recipients)]_vars

\* A job of two recipients has been run and retry-failed has reset one of
\* them: its totalCount is still the number of its recipients.
C12_Witness ==
    /\ job # NoJob /\ loop.pc = "done"
    /\ response.op = "retry-failed" /\ response.retriedCount = 1
    /\ job.totalCount = 2 /\ Len(recipients) = 2
    /\ job.processedCount = 1

\* C13: in every reachable state, including the states reached by retry-failed
\* requests interleaved with a running loop on the same job, the job has
\* 0 <= processedCount <= totalCount.
C13_ProcessedWithinTotal ==
    (job # NoJob)
        => /\ 0 <= job.processedCount
           /\ job.processedCount <= job.totalCount

\* The SmtpConfig records that are the default
Defaults == {c \in Indices(smtp.configs) : smtp.configs[c].isDefault}

\* C14: at most one SmtpConfig has isDefault = true in every reachable
\* state, under any sequence and interleaving of create and update requests.
C14_OneDefault == Cardinality(Defaults) <= 1

\* C15: if the certificate template (certificate job) or the email template
\* or SMTP configuration (email job) that the job's config refers to is
\* missing when the engine starts, the engine aborts before processing any
\* recipient and leaves the job's status, counters and all its recipients
\* exactly as they were.
C15_MissingReferenceAborts ==
    [][(job # NoJob /\ loop' # loop /\ loop'.missing # Null)
         => /\ loop'.pc = "aborted"
            /\ loop'.calls = <<>>
            /\ job' = job
            /\ recipients' = recipients]_vars

\* The engine of an email job has aborted because the SMTP configuration
\* is missing: the job is still pending with its counters at 0 and its
\* recipients pending.
C15_Witness ==
    /\ job # NoJob /\ job.type = "email"
    /\ loop.pc = "aborted" /\ loop.missing = Some("smtpConfig")
    /\ job.status = "pending" /\ job.processedCount = 0
    /\ Len(recipients) = 2
    /\ \A k \in Indices(recipients) : recipients[k].emailStatus = "pending"

\* A generation or send-batch request is answered
CreationAnswered ==
    /\ response' # response
    /\ response'.op \in {"generate", "send-batch"}

\* C16: a generation request with no CSV file, no template id, no output
\* path, an unknown template or a CSV that fails validation is rejected
\* without creating any job or recipient and without starting the engine;
\* likewise a send-batch request with a missing or unknown certificate job,
\* email template or SMTP config creates no job.  So every job that exists
\* was made from a request that had all of these.
C16_RejectedCreatesNothing ==
    [][CreationAnswered
         => IF response'.status = 201
            THEN /\ JobCreated
                 /\ loop' = CalledLoop
                 /\ job'.totalCount >= 1
                 /\ job'.type = "certificate"
                      => /\ response'.op = "generate"
                         /\ TemplateExists(job'.config.templateId)
                         /\ job'.config.outputPath # ""
                 /\ job'.type = "email"
                      => /\ response'.op = "send-batch"
                         /\ RecordExists(job'.config.emailTemplateId)
                         /\ RecordExists(job'.config.smtpConfigId)
            ELSE /\ response'.status \in {400, 404}
                 /\ job' = NoJob
                 /\ recipients' = <<>>
                 /\ loop' = NoLoop]_vars

\* A send-batch request that names an SMTP config that does not exist has
\* been answered 404 and there is no job, no recipient and no engine call.
C16_Witness ==
    /\ response.op = "send-batch" /\ response.status = 404
    /\ job = NoJob /\ recipients = <<>> /\ loop = NoLoop

\* C17: the persisted processedCount, successCount and failedCount of a job
\* never decrease from one state to the next, except in the step made by
\* retry-failed; in particular a later run of the engine after retry-failed
\* never lowers any of them.
C17_CountersMonotone ==
    [][(job # NoJob /\ job' # NoJob /\ ~RetryStep)
         => /\ job'.processedCount >= job.processedCount
            /\ job'.successCount >= job.successCount
            /\ job'.failedCount >= job.failedCount]_vars

\* A run of the email loop ends that no request has interfered with: the
\* job is still in the status the run gave it.
EmailRunEnds ==
    /\ FinishStep
    /\ job.type = "email"
    /\ job.status = "processing"

\* C18: the recipients that the email loop skips because they are already
\* sent count toward the job's processed and success counters: when an
\* email run ends, the persisted processedCount is totalCount and the
\* persisted successCount is the number of recipients with emailStatus =
\* sent, wherever the skipped recipients are in the iteration order.
C18_SkippedAreCounted ==
    [][EmailRunEnds
         => /\ job'.processedCount = job'.totalCount
            /\ job'.successCount =
                 Cardinality({k \in Indices(recipients') :
                                 recipients'[k].emailStatus = "sent"})]_vars

\* retry-failed has reset recipient k of an email job and no attempt has
\* been recorded for it since
AwaitsRetry(k) ==
    /\ job # NoJob /\ job.type = "email"
    /\ k \in Indices(recipients)
    /\ recipients[k].queued

\* C19: after a retry-failed request on an email job with failed
\* recipients, every recipient reset is eventually attempted again: its
\* emailStatus leaves pending and the job leaves status pending, with no
\* further request needed.
C19_RetriedIsAttempted ==
    \A k \in 1..MaxRecipients :
        AwaitsRetry(k) ~> /\ job # NoJob /\ job.status # "pending"
                          /\ ~ (k \in Indices(recipients)
                                 /\ recipients[k].emailStatus = "pending")

\* C20: the number of emails sent within one day never exceeds the daily
\* email cap configured (AppSettings.maxEmailsPerDay, by default
\* DAILY_LIMIT): no step that records an email as sent takes the day's count
\* above the cap in force.
C20_DailyCapRespected ==
    [][emailsSentToday(recipients', 1) > emailsSentToday(recipients, 1)
         => emailsSentToday(recipients', 1) <= dailyLimit(settings)]_vars

\* The file name the token grammar gives, piece by piece: the sequence
\* number for {{sn}}, the sanitized full name for a token of "name", and
\* the text of any other piece as it stands
RECURSIVE Resolved(_, _, _)
Resolved(pieces, fullName, index) ==
    IF pieces = <<>>
    THEN <<>>
    ELSE LET piece == Head(pieces)
         IN  (IF piece.kind = "sn" THEN padStart(Decimal(index + 1), 3, "0")
              ELSE IF piece.kind = "field" THEN sanitizeFilename(fullName)
              ELSE piece.src)
             \o Resolved(Tail(pieces), fullName, index)

\* generateFilename has been called on the pattern {{sn}}_{{name}}, index 0
\* and the name Jane Doe
NamedJaneDoe ==
    /\ naming.pc = "named"
    /\ naming.pieces = SnAndName
    /\ naming.names = <<JaneDoe>>
    /\ naming.first = 0

\* C21: generateFilename replaces {{sn}} by the 1-based sequence number
\* padded with zeros to 3 digits and each token of a field by the sanitized
\* value of the field (safe characters only, each run of white space one
\* underscore, at most 100 characters), keeps the other text and appends
\* .pdf unless the name already ends with it; {{sn}}_{{name}} at index 0
\* with the name Jane Doe gives 001_Jane_Doe.pdf.
C21_FilenameGrammar ==
    (naming.pc = "named")
        => LET fullName  == naming.names[1]
               sanitized == sanitizeFilename(fullName)
               body      == Resolved(naming.pieces, fullName, naming.first)
               filename  == naming.paths[1]
           IN  /\ filename = IF EndsWithPdf(body)
                             THEN body
                             ELSE body \o <<".", "p", "d", "f">>
               /\ \A k \in Indices(sanitized) :
                     IsSafe(sanitized[k]) /\ ~IsSpace(sanitized[k])
               /\ Len(sanitized) <= 100
               /\ Len(sanitized) <= Len(fullName)
               /\ NamedJaneDoe
                    => filename = <<"0", "0", "1", "_", "J", "a", "n", "e", "_",
                                    "D", "o", "e", ".", "p", "d", "f">>

C21_Witness ==
    /\ NamedJaneDoe
    /\ naming.paths = <<(<<"0", "0", "1", "_", "J", "a", "n", "e", "_",
                           "D", "o", "e", ".", "p", "d", "f">>)>>

\* C30: within one certificate job, whatever the naming pattern and the
\* recipients' field values, no two recipients processed successfully are
\* given the same certificatePath.
C30_PathsDistinct ==
    \A k1, k2 \in Indices(naming.paths) :
        k1 # k2 => naming.paths[k1] # naming.paths[k2]

\* A step in which a route calls an engine in the background
EngineCalled == loop' = CalledLoop /\ loop # CalledLoop

\* The recipients the run has skipped so far as already sent
Skipped(l) ==
    {k \in Indices(l.recipients) :
        k <= l.i /\ l.recipients[k].emailStatus = "sent"}

\* The number of sends the run has started whose outcome it has not yet
\* persisted on the recipient: the run counts a recipient as processed in
\* the step that persists the outcome, or when it skips the recipient
Unsettled(l) ==
    Cardinality(Attempted(l)) - (l.processedCount - Cardinality(Skipped(l)))

\* C22: at most one batch loop is active for a job at any time (an engine
\* is called only by the request that creates the job), and within an email
\* job at most one send is in flight: the send for a recipient starts only
\* when the outcome of every send started before it has been persisted.
C22_OneSendInFlight ==
    /\ [](job # NoJob /\ job.type = "email"
            => /\ Unsettled(loop) \in {0, 1}
               /\ loop.pc = "work" => Unsettled(loop) = 1)
    /\ [][EngineCalled => job = NoJob /\ loop = NoLoop]_vars
    /\ [][(\E k \in Indices(recipients) : SendIssued(k))
            => Unsettled(loop) = 0 /\ Unsettled(loop') = 1]_vars

C22_Witness ==
    /\ job # NoJob /\ job.type = "email"
    /\ loop.pc = "work" /\ loop.i = 2
    /\ Attempted(loop) = {1, 2}
    /\ recipients[1].emailStatus \in {"sent", "failed"}
    /\ recipients[2].emailStatus = "pending"

\* The step persists the outcome of a send that failed
FailedSendRecorded ==
    /\ job # NoJob /\ job.type = "email"
    /\ loop.pc = "recipient" /\ loop'.pc # "recipient"
    /\ loop.error # Null

\* C23: for every recipient, sentAt is non-null exactly when emailStatus is
\* sent, and a sent recipient has no errorMessage; the step that records a
\* failed send sets emailStatus to failed with the error text and leaves
\* sentAt null.
C23_SentAtIffSent ==
    /\ [](\A k \in Indices(recipients) :
            /\ recipients[k].sentAt # Null <=> recipients[k].emailStatus = "sent"
            /\ recipients[k].emailStatus = "sent"
                 => recipients[k].errorMessage = Null)
    /\ [][FailedSendRecorded
            => /\ recipients'[loop.i].emailStatus = "failed"
               /\ recipients'[loop.i].errorMessage = loop.error
               /\ recipients'[loop.i].sentAt = Null]_vars

C23_Witness ==
    /\ job # NoJob /\ job.type = "email"
    /\ Len(recipients) = 2
    /\ recipients[1].emailStatus = "sent" /\ recipients[1].sentAt # Null
    /\ recipients[2].emailStatus = "failed" /\ recipients[2].sentAt = Null
    /\ recipients[2].errorMessage # Null

\* C24: a job whose status is pending or processing has no completedAt, and
\* a job whose status is completed or failed has one.
C24_CompletedAtIffTerminal ==
    (job # NoJob)
        => /\ job.status \in {"pending", "processing"} => job.completedAt = Null
           /\ job.status \in {"completed", "failed"} => job.completedAt # Null

\* retry-failed has put a job that had ended back to pending
C24_Witness ==
    /\ job # NoJob
    /\ loop.pc = "done"
    /\ response.op = "retry-failed" /\ response.status = 200
    /\ job.status = "pending" /\ job.completedAt = Null

\* The step publishes a progress event
Published == Len(loop'.events) > Len(loop.events)

\* The last event published
LastEvent(l) == l.events[Len(l.events)]

\* C25: in a certificate run the engine publishes one event of status
\* processing after each recipient, in the step that persists that
\* recipient's counters, with processed = the number of recipients handled
\* so far (1, 2, ...), and after the last recipient exactly one event of
\* status completed with processed = totalCount, in the step that persists
\* the job's final status.
C25_ProgressEvents ==
    /\ [](job # NoJob /\ job.type = "certificate"
            => /\ \A c \in Indices(loop.events) :
                    /\ loop.events[c].total = job.totalCount
                    /\ c <= job.totalCount
                         => /\ loop.events[c].status = "processing"
                            /\ loop.events[c].processed = c
                    /\ c > job.totalCount
                         => /\ c = job.totalCount + 1
                            /\ loop.events[c].status = "completed"
                            /\ loop.events[c].processed = job.totalCount
               /\ Len(loop.events) =
                    IF loop.pc = "done" THEN job.totalCount + 1
                    ELSE loop.processedCount - (IF loop.pc = "job" THEN 1 ELSE 0))
    /\ [][(job # NoJob /\ job.type = "certificate" /\ Published)
            => /\ Len(loop'.events) = Len(loop.events) + 1
               /\ LastEvent(loop').status = "processing"
                    => /\ job'.processedCount = LastEvent(loop').processed
                       /\ job'.successCount + job'.failedCount
                            = LastEvent(loop').processed
               /\ LastEvent(loop').status = "completed"
                    => /\ job'.status \in {"completed", "failed"}
                       /\ job'.completedAt # Null]_vars

C25_Witness ==
    /\ job # NoJob /\ job.type = "certificate"
    /\ job.totalCount = 2
    /\ loop.pc = "done"
    /\ loop.events = <<[processed |-> 1, total |-> 2, status |-> "processing"],
                       [processed |-> 2, total |-> 2, status |-> "processing"],
                       [processed |-> 2, total |-> 2, status |-> "completed"]>>

\* C26: once a cancel request has set the status of a job to cancelled, the
\* status stays cancelled until retry-failed is requested: no step of a
\* batch loop overwrites cancelled with processing, completed or failed.
C26_CancelledStays ==
    [][(job # NoJob /\ job.status = "cancelled" /\ ~RetryStep)
         => job'.status = "cancelled"]_vars

\* A step in which POST /:id/cancel answers for an existing job
CancelStep ==
    /\ job # NoJob
    /\ response' # response
    /\ response'.op = "cancel"

\* C29: a cancel request changes only jobs that have not ended: a job
\* whose status is completed or failed does not become cancelled, and the
\* request changes no counter, nor completedAt, outputPath or a recipient.
C29_CancelOnlyRunning ==
    [][CancelStep
         => /\ job.status \in {"completed", "failed"} => job'.status = job.status
            /\ job' = [job EXCEPT !.status = job'.status]
            /\ recipients' = recipients]_vars

\* C27: whenever an email job has status completed or failed, none of its
\* recipients has emailStatus = pending and its persisted failedCount is the
\* number of its recipients with emailStatus = failed, also when
\* retry-failed requests interleave with the running loop.
C27_EndedJobSettled ==
    (job # NoJob /\ job.type = "email" /\ job.status \in {"completed", "failed"})
        => /\ \A k \in Indices(recipients) : recipients[k].emailStatus # "pending"
           /\ job.failedCount =
                Cardinality({k \in Indices(recipients) :
                                recipients[k].emailStatus = "failed"})

\* C28: every job whose status becomes processing eventually leaves it, for
\* completed or failed unless a request cancels or resets the job, when
\* every render, file-system, send and store call returns, with a result or
\* with an error: no error leaves the job in processing forever.
C28_ProcessingEnds ==
    (job # NoJob /\ job.status = "processing")
        ~> (job # NoJob
              /\ job.status \in {"completed", "failed", "cancelled", "pending"})

====
